---- MODULE Spec2Model ----
(***************************************************************************)
(* A model of three gcloud command handlers and of the long-running        *)
(* operation flow they share:                                              *)
(*   compute firewall-policies rules update   (Update.Args / Update.Run)   *)
(*   container clusters create                (Create*.Args / Create.Run)  *)
(*   policy-intelligence simulate orgpolicy   (SimulateAlpha.Run)          *)
(* One behaviour is one command invocation: the command line is parsed     *)
(* against the flags the release track registered, the handler builds its  *)
(* request, issues the mutating call, waits and fetches.                   *)
(***************************************************************************)
EXTENDS Integers, Sequences, FiniteSets, TLC

VARIABLES
  cmd,       \* "update" | "create" | "simulate"
  track,     \* release track of the command class: "GA" | "BETA" | "ALPHA"
  argv,      \* the options given on the command line: option |-> value
  ruleName,  \* positional of rules update (the priority that names the rule)
  pc,        \* position of the invocation in its handler
  request,   \* the request message handed to the mutating call (PyNone before)
  err,       \* the exception the invocation ended with ("none" while there is none)
  failSite,  \* the step that raised it ("none" while there is none)
  calls,     \* remote calls issued so far, in order
  opState,   \* state of the operation poller
  elapsed,   \* seconds waited on the operation so far
  errRef,    \* operation reference carried by a wait error ("none" otherwise)
  cancelAt,  \* number of remote calls issued when the caller interrupted (-1: never)
  clusterName, \* positional of clusters create
  format,    \* args.format: the one attribute of the argument object a handler assigns
  errPayload,  \* code and message the surfaced error carries
  reported,  \* code and message the provider answered the failed call with
  callRefs,  \* the reference each call of `calls` was made with
  remote,    \* the operation at the provider: "NONE" | "RUNNING" | "DONE" | "CANCELLED"
  operation, \* the terminal operation the wait returned (PyNone before)
  cluster,   \* the cluster GetCluster returned (PyNone before)
  warnings,  \* what the handler logged as warnings, in order
  result,    \* what Run returned (PyNone while it has not)
  FIREWALL_POLICY_ARG, \* the class attribute Update.FIREWALL_POLICY_ARG
  threads,   \* invocations that run side by side in one process: id |-> state
  effects,   \* what the handler did locally after its remote calls, in order
  call       \* a call of a module-level function: its arguments and what it did

vars == <<cmd, track, argv, ruleName, pc, request, err, failSite, calls,
          opState, elapsed, errRef, cancelAt, clusterName, format, errPayload,
          reported, callRefs, remote, operation, cluster, warnings, result,
          FIREWALL_POLICY_ARG, threads, effects, call>>

\* The state of the one invocation the handlers below are followed through.
invocation == <<cmd, track, argv, ruleName, pc, request, err, failSite, calls,
                opState, elapsed, errRef, cancelAt, clusterName, format,
                errPayload, reported, callRefs, remote, operation, cluster,
                warnings, result, effects>>

-----------------------------------------------------------------------------
(* Bounds of the model.                                                    *)

\* At most this many options are given on one command line.
MaxSpecified == 2

\* Seconds between two polls of the operation (the poller's sleep).
PollIntervalS == 1200

-----------------------------------------------------------------------------
(* Python values. Every kind has its own record domain, so values of       *)
(* different kinds compare unequal.                                        *)

PyNone == [py |-> "None"]
PyBool(b) == [py |-> "bool", b |-> b]
PyInt(n) == [py |-> "int", n |-> n]
PyStr(s) == [py |-> "str", s |-> s]
PyList(items) == [py |-> "list", items |-> items]
PyMsg(fields) == [py |-> "msg", fields |-> fields]

Tracks == {"GA", "BETA", "ALPHA"}

\* args.IsSpecified(dest)
IsSpecified(args, dest) == dest \in DOMAIN args

-----------------------------------------------------------------------------
(* compute firewall-policies rules update                                  *)

UpdateCommonFlags ==
  {"action", "src_ip_ranges", "dest_ip_ranges", "layer4_configs", "direction",
   "enable_logging", "disabled", "target_resources", "target_service_accounts",
   "description", "new_priority"}

UpdateAlphaFlags == {"src_fqdns", "dest_fqdns", "security_profile_group"}

UpdateAlphaBetaFlags ==
  {"src_threat_intelligence", "dest_threat_intelligence",
   "src_region_codes", "dest_region_codes"}

UpdateAllFlags == UpdateCommonFlags \cup UpdateAlphaFlags \cup UpdateAlphaBetaFlags

\* A mutation of UpdateArgs: the FQDN and security-profile-group flags are
\* registered on every track.
UpdateArgs_AlphaFlagsEverywhere(t) ==
  UpdateCommonFlags
    \cup UpdateAlphaFlags
    \cup (IF t \in {"ALPHA", "BETA"} THEN UpdateAlphaBetaFlags ELSE {})

\* Update.Args: the flags the command registers on track t.
UpdateArgs(t) ==
  UpdateCommonFlags
    \cup (IF t = "ALPHA" THEN UpdateAlphaFlags ELSE {})
    \cup (IF t \in {"ALPHA", "BETA"} THEN UpdateAlphaBetaFlags ELSE {})

\* The values a rules-update option takes in the model.
UpdateValues(o) ==
  CASE o \in {"enable_logging", "disabled"} -> {PyBool(TRUE), PyBool(FALSE)}
    [] o = "direction" -> {PyStr("INGRESS"), PyStr("EGRESS")}
    [] o = "new_priority" -> {PyStr("20")}
    [] o = "action" -> {PyStr("allow")}
    [] o = "description" -> {PyStr("new-example-rule")}
    [] o = "security_profile_group" -> {PyStr("spg")}
    [] o = "layer4_configs" -> {PyList(<<"tcp:80">>)}
    [] OTHER -> {PyList(<<"v">>)}

RuleNames == {"10", "20"}

\* rule_utils.ConvertPriorityToInt on the priorities of the model.
ConvertPriorityToInt(s) ==
  CASE s = "10" -> 10
    [] s = "20" -> 20

\* rule_utils.ParseLayer4Configs: one config message per given string.
ParseLayer4Configs(v) ==
  PyList([i \in 1..Len(v.items) |-> PyMsg([layer4Config |-> v.items[i]])])

\* firewall_policies_utils.BuildSecurityProfileGroupUrl
BuildSecurityProfileGroupUrl(v) == PyStr("//networksecurity/" \o v.s)

\* The local of Update.Run that option dest feeds: its initial value unless
\* the option is specified.
UpdateLocal(args, dest, initial) ==
  IF IsSpecified(args, dest) THEN args[dest] ELSE initial

\* Options whose being specified sets should_setup_match on track t.
MatchSetters(t) ==
  {"src_ip_ranges", "dest_ip_ranges", "layer4_configs"}
    \cup (IF t = "ALPHA" THEN {"src_fqdns", "dest_fqdns"} ELSE {})
    \cup (IF t \in {"ALPHA", "BETA"} THEN UpdateAlphaBetaFlags ELSE {})

\* A mutation of should_setup_match: only the options of every track count.
should_setup_match_CommonOnly(t, args) ==
  \E o \in {"src_ip_ranges", "dest_ip_ranges", "layer4_configs"} :
    IsSpecified(args, o)

\* should_setup_match of Update.Run once the options were looked at.
should_setup_match(t, args) == \E o \in MatchSetters(t) : IsSpecified(args, o)

MatcherCommon(args) ==
  [srcIpRanges |-> UpdateLocal(args, "src_ip_ranges", PyList(<<>>)),
   destIpRanges |-> UpdateLocal(args, "dest_ip_ranges", PyList(<<>>)),
   layer4Configs |->
     IF IsSpecified(args, "layer4_configs")
       THEN ParseLayer4Configs(args["layer4_configs"])
       ELSE PyList(<<>>)]

MatcherRegionThreat(args) ==
  [srcRegionCodes |-> UpdateLocal(args, "src_region_codes", PyList(<<>>)),
   destRegionCodes |-> UpdateLocal(args, "dest_region_codes", PyList(<<>>)),
   srcThreatIntelligences |->
     UpdateLocal(args, "src_threat_intelligence", PyList(<<>>)),
   destThreatIntelligences |->
     UpdateLocal(args, "dest_threat_intelligence", PyList(<<>>))]

MatcherFqdns(args) ==
  [srcFqdns |-> UpdateLocal(args, "src_fqdns", PyList(<<>>)),
   destFqdns |-> UpdateLocal(args, "dest_fqdns", PyList(<<>>))]

\* A mutation of FirewallPolicyRuleMatcher: every track builds the ALPHA shape.
FirewallPolicyRuleMatcher_AlphaShape(t, args) ==
  MatcherCommon(args) @@ MatcherFqdns(args) @@ MatcherRegionThreat(args)

\* The keyword arguments of the FirewallPolicyRuleMatcher that Update.Run
\* constructs on track t.
FirewallPolicyRuleMatcher(t, args) ==
  CASE t = "ALPHA" ->
         MatcherCommon(args) @@ MatcherFqdns(args) @@ MatcherRegionThreat(args)
    [] t = "BETA" -> MatcherCommon(args) @@ MatcherRegionThreat(args)
    [] OTHER -> MatcherCommon(args)

\* matcher of Update.Run: None unless should_setup_match.
UpdateMatcher(t, args) ==
  IF should_setup_match(t, args)
    THEN PyMsg(FirewallPolicyRuleMatcher(t, args))
    ELSE PyNone

UpdateDirection(args) ==
  IF IsSpecified(args, "direction")
    THEN (IF args["direction"] = PyStr("INGRESS")
            THEN PyStr("INGRESS") ELSE PyStr("EGRESS"))
    ELSE PyNone

\* A mutation of UpdateNewPriority: without --new-priority the rule body is
\* given no priority of its own.
UpdateNewPriority_Unset(args, name) ==
  IF IsSpecified(args, "new_priority")
    THEN ConvertPriorityToInt(args["new_priority"].s)
    ELSE 0

\* new_priority of Update.Run
UpdateNewPriority(args, name) ==
  IF IsSpecified(args, "new_priority")
    THEN ConvertPriorityToInt(args["new_priority"].s)
    ELSE ConvertPriorityToInt(name)

\* args.<dest> of an option that is registered and not specified: the
\* parser's default, None.
ArgValue(args, dest) == IF IsSpecified(args, dest) THEN args[dest] ELSE PyNone

RuleCommon(t, args, name) ==
  [priority |-> PyInt(UpdateNewPriority(args, name)),
   action |-> ArgValue(args, "action"),
   match |-> UpdateMatcher(t, args),
   direction |-> UpdateDirection(args),
   targetResources |-> UpdateLocal(args, "target_resources", PyList(<<>>)),
   targetServiceAccounts |->
     UpdateLocal(args, "target_service_accounts", PyList(<<>>)),
   description |-> ArgValue(args, "description"),
   enableLogging |-> UpdateLocal(args, "enable_logging", PyBool(FALSE)),
   disabled |-> UpdateLocal(args, "disabled", PyBool(FALSE))]

UpdateSecurityProfileGroup(t, args) ==
  IF t = "ALPHA" /\ IsSpecified(args, "security_profile_group")
    THEN BuildSecurityProfileGroupUrl(args["security_profile_group"])
    ELSE PyNone

\* The FirewallPolicyRule that Update.Run constructs on track t.
FirewallPolicyRule(t, args, name) ==
  IF t = "ALPHA"
    THEN RuleCommon(t, args, name)
           @@ [securityProfileGroup |-> UpdateSecurityProfileGroup(t, args)]
    ELSE RuleCommon(t, args, name)

\* A mutation of UpdateFirewallPolicyArg: the argument is registered under
\* another name on the ALPHA track.
UpdateFirewallPolicyArg_PerTrack(t) ==
  [name_arg |-> IF t = "ALPHA" THEN "new_priority" ELSE "priority",
   required |-> TRUE, operation |-> "update"]

\* The argument object Update.Args stores in the class attribute on track t:
\* flags.FirewallPolicyRuleArgument(required=True, operation='update').
UpdateFirewallPolicyArg(t) ==
  [name_arg |-> "priority", required |-> TRUE, operation |-> "update"]

\* The attributes of the parsed arguments a resource argument can name.
Namespace(name, args) ==
  [priority |-> name,
   new_priority |-> IF IsSpecified(args, "new_priority")
                      THEN args["new_priority"].s ELSE "none"]

\* FIREWALL_POLICY_ARG.ResolveAsResource(args, ...): the name of the rule is
\* the attribute of args the argument object names.
ResolveAsResource(arg, ns) == ns[arg.name_arg]

\* The call firewall_policy_rule_client.Update(priority, firewall_policy,
\* firewall_policy_rule) of Update.Run.
UpdateRequest(t, args, name) ==
  PyMsg([priority |-> PyInt(ConvertPriorityToInt(name)),
         firewall_policy_rule |-> PyMsg(FirewallPolicyRule(t, args, name))])

-----------------------------------------------------------------------------
(* container clusters create                                               *)

\* Flags of _Args and of the flag groups every track's table holds; --format
\* is a flag of every command.
CreateCommonFlags ==
  {"timeout", "async_", "subnetwork", "create_subnetwork", "additional_zones",
   "node_locations", "enable_stackdriver_kubernetes",
   "cluster_dns", "cluster_dns_scope", "enable_kubernetes_alpha", "format"}

CreateAlphaBetaFlags == {"enable_pod_security_policy"}

CreateAlphaFlags == {"security_profile"}

CreateAllFlags == CreateCommonFlags \cup CreateAlphaBetaFlags \cup CreateAlphaFlags

\* flags_to_add[t]: the dests the groups of track t register. 'nodelocations'
\* is a group of its own on GA and part of 'additionalzones' on BETA and ALPHA.
CreateArgs(t) ==
  CreateCommonFlags
    \cup (IF t \in {"ALPHA", "BETA"} THEN CreateAlphaBetaFlags ELSE {})
    \cup (IF t = "ALPHA" THEN CreateAlphaFlags ELSE {})

\* The mutually exclusive groups the parser of track t is given: 'additionalzones'
\* is _AddAdditionalZonesFlag on GA and _AddAdditionalZonesGroup on BETA and ALPHA.
CreateExclusiveGroups(t) ==
  IF t = "GA" THEN {} ELSE {{"additional_zones", "node_locations"}}

\* --timeout: default=3600
TimeoutDefault == 3600

CreateValues(o) ==
  CASE o \in {"async_", "enable_stackdriver_kubernetes"} ->
         {PyBool(TRUE), PyBool(FALSE)}
    [] o = "timeout" -> {PyInt(0), PyInt(1500)}
    [] o = "enable_pod_security_policy" -> {PyBool(TRUE)}
    [] o = "security_profile" -> {PyStr("profile")}
    [] o = "subnetwork" -> {PyStr("subnet-1")}
    [] o = "create_subnetwork" -> {PyStr(""), PyStr("name=new-subnet")}
    [] o = "cluster_dns" -> {PyStr("clouddns"), PyStr("CloudDNS"), PyStr("kubedns")}
    [] o = "cluster_dns_scope" -> {PyStr("cluster")}
    [] o = "enable_kubernetes_alpha" -> {PyBool(TRUE), PyBool(FALSE)}
    [] o = "format" -> {PyStr("json")}
    [] OTHER -> {PyList(<<"us-central1-b">>)}

\* The parser's default of a create flag that is registered and not given.
CreateParserDefault(dest) ==
  CASE dest = "timeout" -> PyInt(TimeoutDefault)
    [] dest = "async_" -> PyBool(FALSE)
    [] OTHER -> PyNone

\* args.<dest> on track t (dest is an attribute of args).
CreateAttr(args, dest) ==
  IF IsSpecified(args, dest) THEN args[dest] ELSE CreateParserDefault(dest)

\* hasattr(args, dest): the parser of track t registered the flag.
hasattr(t, dest) == dest \in CreateArgs(t)

\* base_flag_defaults restricted to the options of the model: none of them
\* has an overridden default.
DefaultAttribute(flagname) == PyNone

\* AttrValue(args, flagname, flag_defaults): getattr with a default.
AttrValue(t, args, flagname) ==
  IF hasattr(t, flagname) THEN CreateAttr(args, flagname)
  ELSE DefaultAttribute(flagname)

\* _GetEnableStackdriver
GetEnableStackdriver(t, args) ==
  IF ~hasattr(t, "enable_stackdriver_kubernetes") THEN PyNone
  ELSE IF ~IsSpecified(args, "enable_stackdriver_kubernetes") THEN PyNone
  ELSE args["enable_stackdriver_kubernetes"]

\* ParseCreateOptionsBase: the CreateClusterOptions it returns. The two
\* options no keyword feeds keep the constructor's None.
ParseCreateOptionsBase(t, args) ==
  [additional_zones |-> AttrValue(t, args, "additional_zones"),
   node_locations |-> AttrValue(t, args, "node_locations"),
   subnetwork |-> AttrValue(t, args, "subnetwork"),
   create_subnetwork |-> AttrValue(t, args, "create_subnetwork"),
   enable_stackdriver_kubernetes |-> GetEnableStackdriver(t, args),
   cluster_dns |-> AttrValue(t, args, "cluster_dns"),
   cluster_dns_scope |-> AttrValue(t, args, "cluster_dns_scope"),
   enable_kubernetes_alpha |-> AttrValue(t, args, "enable_kubernetes_alpha"),
   enable_pod_security_policy |-> PyNone,
   security_profile |-> PyNone]

\* Create.ParseCreateOptions, CreateBeta.ParseCreateOptions and
\* CreateAlpha.ParseCreateOptions.
ParseCreateOptions(t, args) ==
  CASE t = "GA" -> ParseCreateOptionsBase(t, args)
    [] t = "BETA" ->
         [ParseCreateOptionsBase(t, args) EXCEPT
            !.enable_pod_security_policy =
               AttrValue(t, args, "enable_pod_security_policy")]
    [] OTHER ->
         [ParseCreateOptionsBase(t, args) EXCEPT
            !.enable_pod_security_policy =
               AttrValue(t, args, "enable_pod_security_policy"),
            !.security_profile = AttrValue(t, args, "security_profile")]

\* The builder's check of the subnetwork options ("Cannot be used with the
\* --create-subnetwork option"): both set is a conflict.
SubnetworkConflict(options) ==
  options.subnetwork # PyNone /\ options.create_subnetwork # PyNone

\* util.OPERATIONS_FORMAT
OPERATIONS_FORMAT == PyStr("operations-format")

\* A mutation of CreateFormat: --async sets the operations format whatever
\* the caller asked for.
CreateFormat_Always(args, fmt) ==
  IF CreateAttr(args, "async_") = PyBool(TRUE) THEN OPERATIONS_FORMAT ELSE fmt

\* args.format after the first statement of Create.Run: with --async and no
\* --format the handler assigns the operations format to the argument object.
CreateFormat(args, fmt) ==
  IF CreateAttr(args, "async_") = PyBool(TRUE) /\ ~IsSpecified(args, "format")
    THEN OPERATIONS_FORMAT
    ELSE fmt

ClusterNames == {"c1", "c2"}

\* location_get(args): the location the invocation resolves to.
location_get(args) == "us-central1-a"

\* adapter.ParseCluster(args.name, location)
ParseCluster(name, location) ==
  [projectId |-> "project-1", zone |-> location, clusterId |-> name]

\* A mutation of Lower: the value is compared as it was typed.
Lower_AsTyped(v) == v

\* str.lower on the values of the model.
Lower(v) ==
  CASE v = "CloudDNS" -> "clouddns"
    [] OTHER -> v

\* `not x` of Python for the values of the model.
PyFalsy(v) ==
  v = PyNone \/ v = PyBool(FALSE) \/ v = PyStr("") \/ v = PyList(<<>>)

\* The checks of Create.Run between the options and the try block, in the
\* order of the code: the exception the first failing one raises, "none" if
\* all pass. kubectl: whether util.CheckKubectlInstalled passed; agreed:
\* the caller's answer to the Kubernetes alpha prompt.
CreateLocalError(t, options, kubectl, agreed) ==
  CASE ~kubectl -> "MissingKubectlError"
    [] /\ t = "GA"
       /\ ~PyFalsy(options.cluster_dns)
       /\ Lower(options.cluster_dns.s) = "clouddns"
       /\ PyFalsy(options.cluster_dns_scope) -> "util.Error"
    [] ~PyFalsy(options.enable_kubernetes_alpha) /\ ~agreed ->
         "OperationCancelledError"
    [] OTHER -> "none"

\* A mutation of CreateTimeout: the wait is given no time at all.
CreateTimeout_Zero(args) == 0

\* timeout_s=args.timeout of the WaitForOperation call
CreateTimeout(args) == CreateAttr(args, "timeout").n

\* args.async_
IsAsync(args) == CreateAttr(args, "async_") = PyBool(TRUE)

\* A mutation of CreateNext: an error of the wait is swallowed and the
\* handler goes on to fetch the cluster.
CreateNext_WaitErrorIgnored(site, ok, isAsync) ==
  CASE site = "submit" /\ ok /\ isAsync -> "async_get"
    [] site = "submit" /\ ok -> "waiting"
    [] site = "wait" -> "fetch"
    [] site = "fetch" /\ ok -> "fetched"
    [] site = "async_get" /\ ok -> "done"
    [] OTHER -> "failed"

\* A mutation of CreateNext: a failed wait is started again.
CreateNext_WaitAgain(site, ok, isAsync) ==
  CASE site = "submit" /\ ok /\ isAsync -> "async_get"
    [] site = "submit" /\ ok -> "waiting"
    [] site = "wait" /\ ok -> "fetch"
    [] site = "wait" -> "waiting"
    [] site = "fetch" /\ ok -> "fetched"
    [] site = "async_get" /\ ok -> "done"
    [] OTHER -> "failed"

\* A mutation of CreateNext: the cluster is fetched right after the create
\* call, without the wait.
CreateNext_SkipsWait(site, ok, isAsync) ==
  CASE site = "submit" /\ ok /\ isAsync -> "async_get"
    [] site = "submit" /\ ok -> "fetch"
    [] site = "fetch" /\ ok -> "fetched"
    [] site = "async_get" /\ ok -> "done"
    [] OTHER -> "failed"

\* The try block of Create.Run: where the handler stands after the call at
\* `site` returned (ok) or raised (~ok). Every exception leaves Run.
CreateNext(site, ok, isAsync) ==
  CASE site = "submit" /\ ok /\ isAsync -> "async_get"
    [] site = "submit" /\ ok -> "waiting"
    [] site = "wait" /\ ok -> "fetch"
    [] site = "fetch" /\ ok -> "fetched"
    [] site = "async_get" /\ ok -> "done"
    [] OTHER -> "failed"

\* The error payloads the provider answers with in the model.
ProviderErrors ==
  {[code |-> 409, message |-> "conflict"], [code |-> 403, message |-> "forbidden"]}

\* The payload of an error that carries none.
NoPayload == [code |-> 0, message |-> ""]

\* util.HTTP_ERROR_FORMAT applied to the provider's error: what the
\* HttpException shows of it.
HttpErrorFormat(p) ==
  [code |-> p.code, message |-> "ResponseError: " \o p.message]

\* A mutation of CreatePayload: every error is put through the HTTP format.
CreatePayload_AlwaysFormatted(raised, p) == HttpErrorFormat(p)

\* What the error that leaves Create.Run carries: the except clause rewraps an
\* HttpError with the HTTP format and touches no other exception.
CreatePayload(raised, p) ==
  IF raised = "HttpError" THEN HttpErrorFormat(p) ELSE p

\* A mutation of CreateExceptCalls: the handler cancels the operation when
\* the wait failed.
CreateExceptCalls_CancelsOperation(site) ==
  IF site = "wait" THEN <<"CancelOperation">> ELSE <<>>

\* The remote calls the except clause of Create.Run issues: none, it only
\* raises.
CreateExceptCalls(site) == <<>>

\* A mutation of CreateSurfaced: the except clause raises util.Error.
CreateSurfaced_AsUtilError(site, raised) ==
  IF raised = "HttpError" THEN "util.Error" ELSE raised

\* A mutation of CreateSurfaced: the except clause catches every exception.
CreateSurfaced_CatchAll(site, raised) == "HttpException"

\* The except clause of Create.Run: an HttpError raised anywhere in the try
\* block is re-raised as HttpException(error, util.HTTP_ERROR_FORMAT); any
\* other exception passes through.
CreateSurfaced(site, raised) ==
  IF raised = "HttpError" THEN "HttpException" ELSE raised

-----------------------------------------------------------------------------
(* policy-intelligence simulate orgpolicy (ALPHA only)                     *)

SimulateArgs == {"policies", "custom_constraints"}

\* A file is modelled by whether the message read from it has a name.
SimulateValues(o) ==
  {PyList(<<"named">>), PyList(<<"unnamed">>), PyList(<<"named", "unnamed">>),
   PyList(<<>>)}

\* `not args.<dest>`: None and the empty list are falsy.
Falsy(v) == v = PyNone \/ v = PyList(<<>>)

\* The first exception of the validation part of SimulateAlpha.Run, "none"
\* if it raises nothing. Iterating over None is a TypeError; policies[0] of
\* an empty list is an IndexError.
SimulateValidate(args) ==
  LET policies == ArgValue(args, "policies")
      constraints == ArgValue(args, "custom_constraints")
      HasUnnamed(v) == \E i \in 1..Len(v.items) : v.items[i] = "unnamed"
  IN  CASE Falsy(policies) /\ Falsy(constraints) -> "ConflictingArgumentsException"
        [] policies = PyNone -> "TypeError"
        [] HasUnnamed(policies) -> "InvalidArgumentException"
        [] constraints = PyNone -> "TypeError"
        [] HasUnnamed(constraints) -> "InvalidArgumentException"
        [] policies.items = <<>> -> "IndexError"
        [] OTHER -> "none"

\* The GenerateOrgPolicyViolationsPreviewRequest of SimulateAlpha.Run.
SimulateRequest(args) ==
  PyMsg([parent |-> PyStr("organizations/1/locations/global"),
         policies |-> ArgValue(args, "policies"),
         custom_constraints |-> ArgValue(args, "custom_constraints")])

\* A mutation of SimulateNext: the results are listed right after the
\* request was submitted.
SimulateNext_ListAtOnce(site, ok) ==
  CASE site = "submit" /\ ok -> "list"
    [] site = "list" /\ ok -> "done"
    [] OTHER -> "failed"

\* The steps of SimulateAlpha.Run after validation: every exception leaves Run.
SimulateNext(site, ok) ==
  CASE site = "submit" /\ ok -> "waiting"
    [] site = "wait" /\ ok -> "list"
    [] site = "list" /\ ok -> "done"
    [] OTHER -> "failed"

-----------------------------------------------------------------------------
(* The argument parser (calliope), as far as the commands rely on it.      *)

Commands == {"update", "create", "simulate"}

AllFlags(c) ==
  CASE c = "update" -> UpdateAllFlags
    [] c = "create" -> CreateAllFlags
    [] OTHER -> SimulateArgs

Values(c, o) ==
  CASE c = "update" -> UpdateValues(o)
    [] c = "create" -> CreateValues(o)
    [] OTHER -> SimulateValues(o)

\* The flags the Args method of command c registers on track t.
Registered(c, t) ==
  CASE c = "update" -> UpdateArgs(t)
    [] c = "create" -> CreateArgs(t)
    [] OTHER -> SimulateArgs

ExclusiveGroups(c, t) == IF c = "create" THEN CreateExclusiveGroups(t) ELSE {}

\* The command lines of command c: at most MaxSpecified options, each with
\* one of its values.
Argvs(c) ==
  UNION { { f \in [S -> UNION {Values(c, o) : o \in S}] :
              \A o \in S : f[o] \in Values(c, o) } :
          S \in {S \in SUBSET AllFlags(c) : Cardinality(S) <= MaxSpecified} }

\* The parser's verdict on a command line: two flags of one mutually
\* exclusive group are a conflict, a flag the track did not register is
\* rejected, anything else is accepted.
ParseError(c, t, args) ==
  IF \E g \in ExclusiveGroups(c, t) : Cardinality(g \cap DOMAIN args) > 1
    THEN "ConflictingOptionsError"
  ELSE IF \E o \in DOMAIN args : o \notin Registered(c, t)
    THEN "UnsupportedOptionError"
  ELSE "none"

-----------------------------------------------------------------------------
(* The operation poller (WaitForOperation of the api adapters).            *)

NonTerminalStates == {"SUBMITTED", "RUNNING"}

TerminalStates == {"DONE_OK", "DONE_ERROR", "TIMED_OUT", "CANCELLED"}

\* What the provider may answer to a poll.
Replies(state) ==
  {"RUNNING", "DONE_OK", "DONE_ERROR"}
    \cup (IF state = "SUBMITTED" THEN {"PENDING"} ELSE {})

\* The reference of the operation the mutating call of command c returns.
OperationRef(c) ==
  IF c = "create" THEN "operations/create-cluster" ELSE "operations/preview"

\* The deadline of the wait: --timeout for cluster create; the simulator's
\* own wait takes no timeout from the command and is given two intervals.
WaitTimeout(c, args) ==
  IF c = "create" THEN CreateTimeout(args) ELSE 2 * PollIntervalS

\* Where handler c stands after the call at `site`.
HandlerNext(c, args, site, ok) ==
  IF c = "create" THEN CreateNext(site, ok, IsAsync(args))
  ELSE SimulateNext(site, ok)

\* The exception handler c ends with when `raised` is raised at `site`.
Surfaced(c, site, raised) ==
  IF c = "create" THEN CreateSurfaced(site, raised) ELSE raised

\* What that exception carries of the provider's error p.
SurfacedPayload(c, raised, p) ==
  IF c = "create" THEN CreatePayload(raised, p) ELSE p

\* The remote calls handler c issues on its way out with an exception.
ExceptCalls(c, site) ==
  IF c = "create" THEN CreateExceptCalls(site) ELSE <<>>

\* Requests that cancel or undo the operation at the provider.
CancellingCalls == {"CancelOperation", "DeleteCluster"}

\* The operation at the provider after the requests `made`: only a
\* cancelling request takes it out of its course.
ProviderAfter(r, made) ==
  IF \E i \in 1..Len(made) : made[i] \in CancellingCalls THEN "CANCELLED" ELSE r

\* The detail strings a terminal operation has in the model.
Details == {PyNone, PyStr(""), PyStr("nodes are not ready")}

\* The cluster the provider holds under a reference.
ProviderCluster(ref) == PyMsg([name |-> ref.clusterId, zone |-> ref.zone,
                               projectId |-> ref.projectId])

-----------------------------------------------------------------------------
(* The invocation.                                                         *)

\* A mutation of ClusterRef: the name argument is not looked at.
ClusterRef_FixedName == ParseCluster("c1", location_get(argv))

\* cluster_ref of Create.Run
ClusterRef == ParseCluster(clusterName, location_get(argv))

\* A mutation of FetchRef: the cluster is looked up in the default zone.
FetchRef_DefaultZone == ParseCluster(clusterName, "default-zone")

\* The argument of adapter.GetCluster: cluster_ref
FetchRef == ClusterRef

\* A mutation of DetailWarnings: the detail is logged whatever it is.
DetailWarnings_AlwaysLogged(op) == <<op.fields.detail>>

\* if operation.detail: log.warning(operation.detail)
DetailWarnings(op) ==
  IF PyFalsy(op.fields.detail) THEN <<>> ELSE <<op.fields.detail>>

\* The parent the simulate requests are made under.
SimulateParent == "organizations/1/locations/global"

\* No module-level function is being followed.
NoCall == [fn |-> "none"]

Init ==
  /\ cmd \in Commands
  /\ track \in (IF cmd = "simulate" THEN {"ALPHA"} ELSE Tracks)
  /\ argv \in Argvs(cmd)
  /\ ruleName \in (IF cmd = "update" THEN RuleNames ELSE {"none"})
  /\ clusterName \in (IF cmd = "create" THEN ClusterNames ELSE {"none"})
  /\ format = ArgValue(argv, "format")
  /\ pc = "start"
  /\ request = PyNone
  /\ err = "none"
  /\ failSite = "none"
  /\ errPayload = NoPayload
  /\ reported = NoPayload
  /\ calls = <<>>
  /\ callRefs = <<>>
  /\ opState = "NONE"
  /\ elapsed = 0
  /\ errRef = "none"
  /\ cancelAt = -1
  /\ remote = "NONE"
  /\ operation = PyNone
  /\ cluster = PyNone
  /\ warnings = <<>>
  /\ result = PyNone
  /\ FIREWALL_POLICY_ARG = PyNone
  /\ threads = <<>>
  /\ effects = <<>>
  /\ call = NoCall

\* The call `issued` (none: <<>>) was made with reference ref at `site` and
\* returned (ok) or raised `raised` with the provider's error p.
Leave(site, ok, raised, p, issued, ref) ==
  LET next == HandlerNext(cmd, argv, site, ok)
      failed == next = "failed"
      made == issued \o (IF failed THEN ExceptCalls(cmd, site) ELSE <<>>)
  IN  /\ pc' = next
      /\ err' = IF failed THEN Surfaced(cmd, site, raised) ELSE err
      /\ failSite' = IF failed THEN site ELSE failSite
      /\ errPayload' = IF failed THEN SurfacedPayload(cmd, raised, p) ELSE errPayload
      /\ reported' = IF ok THEN reported ELSE p
      /\ calls' = calls \o made
      /\ callRefs' = callRefs \o [i \in 1..Len(made) |->
                                    IF i <= Len(issued) THEN ref ELSE OperationRef(cmd)]

\* The requests the step just taken has made.
Made == SubSeq(calls', Len(calls) + 1, Len(calls'))

\* Args registers the flags of the command (Update.Args stores its argument
\* object in the class attribute) and the parser runs, before the handler.
ParseArgs ==
  /\ pc = "start"
  /\ LET e == ParseError(cmd, track, argv)
     IN  /\ pc' = IF e = "none" THEN "parsed" ELSE "failed"
         /\ err' = e
         /\ failSite' = IF e = "none" THEN "none" ELSE "parse"
  /\ FIREWALL_POLICY_ARG' = IF cmd = "update" THEN UpdateFirewallPolicyArg(track) @@ [id |-> 0]
                            ELSE FIREWALL_POLICY_ARG
  /\ UNCHANGED <<threads, effects, call>>
  /\ UNCHANGED reported
  /\ UNCHANGED <<cmd, track, argv, ruleName, request, calls, opState, elapsed,
                 errRef, cancelAt, clusterName, format, errPayload, callRefs,
                 remote, operation, cluster, warnings, result>>

\* Update.Run: the rule is built and sent in one call of the client.
UpdateRun ==
  /\ cmd = "update"
  /\ pc = "parsed"
  /\ LET ref == ResolveAsResource(FIREWALL_POLICY_ARG, Namespace(ruleName, argv))
     IN  /\ request' = UpdateRequest(track, argv, ref)
         /\ calls' = Append(calls, "UpdateRule")
         /\ callRefs' = Append(callRefs, ref)
  /\ \E ok \in BOOLEAN, p \in ProviderErrors :
       /\ pc' = IF ok THEN "done" ELSE "failed"
       /\ err' = IF ok THEN "none" ELSE "HttpError"
       /\ failSite' = IF ok THEN "none" ELSE "submit"
       /\ errPayload' = IF ok THEN errPayload ELSE p
       /\ reported' = IF ok THEN reported ELSE p
       /\ result' = IF ok THEN PyStr("rule " \o ruleName) ELSE result
  /\ UNCHANGED <<cmd, track, argv, ruleName, opState, elapsed, errRef, cancelAt,
                 clusterName, format, remote, operation, cluster, warnings>>
  /\ UNCHANGED <<FIREWALL_POLICY_ARG, threads, effects, call>>

\* Create.Run up to the try block: the format is set, kubectl is looked for,
\* the options are parsed and checked.
CreateBuild ==
  /\ cmd = "create"
  /\ pc = "parsed"
  /\ format' = CreateFormat(argv, format)
  /\ \E kubectl \in BOOLEAN, agreed \in BOOLEAN :
       LET options == ParseCreateOptions(track, argv)
           local == CreateLocalError(track, options, kubectl, agreed)
           e == IF local # "none" THEN local
                ELSE IF SubnetworkConflict(options) THEN "ConflictingOptionsError"
                ELSE "none"
       IN  /\ pc' = IF e = "none" THEN "built" ELSE "failed"
           /\ err' = IF e = "none" THEN err ELSE e
           /\ failSite' = IF e = "none" THEN failSite ELSE "build"
           /\ request' = IF e = "none" THEN PyMsg(options) ELSE request
  /\ UNCHANGED reported
  /\ UNCHANGED <<cmd, track, argv, ruleName, calls, opState, elapsed, errRef,
                 cancelAt, clusterName, errPayload, callRefs, remote, operation,
                 cluster, warnings, result>>
  /\ UNCHANGED <<FIREWALL_POLICY_ARG, threads, effects, call>>

\* adapter.CreateCluster(cluster_ref, options)
CreateSubmit ==
  /\ cmd = "create"
  /\ pc = "built"
  /\ \E ok \in BOOLEAN, p \in ProviderErrors :
       /\ Leave("submit", ok, "HttpError", p, <<"CreateCluster">>, ClusterRef)
       /\ opState' = IF ok THEN "SUBMITTED" ELSE opState
       /\ remote' = ProviderAfter(IF ok THEN "RUNNING" ELSE remote, Made)
  /\ elapsed' = 0
  /\ UNCHANGED <<cmd, track, argv, ruleName, request, errRef, cancelAt,
                 clusterName, format, operation, cluster, warnings, result>>
  /\ UNCHANGED <<FIREWALL_POLICY_ARG, threads, effects, call>>

\* adapter.GetCluster(cluster_ref), after the wait or right away with --async
\* (whose cluster is what Run returns).
GetCluster ==
  /\ cmd = "create"
  /\ pc \in {"fetch", "async_get"}
  /\ \E ok \in BOOLEAN, p \in ProviderErrors :
       /\ Leave(pc, ok, "HttpError", p, <<"GetCluster">>, FetchRef)
       /\ cluster' = IF ok THEN ProviderCluster(FetchRef) ELSE cluster
       /\ result' = IF ok /\ pc = "async_get"
                      THEN ProviderCluster(FetchRef) ELSE result
  /\ remote' = ProviderAfter(remote, Made)
  /\ UNCHANGED <<cmd, track, argv, ruleName, request, opState, elapsed, errRef,
                 cancelAt, clusterName, format, operation, warnings>>
  /\ UNCHANGED <<FIREWALL_POLICY_ARG, threads, effects, call>>

\* The rest of Create.Run: a detail of the operation is logged as a warning,
\* the kubeconfig is written (a missing environment variable is a warning),
\* the cluster is returned in a list.
CreateFinish ==
  /\ cmd = "create"
  /\ pc = "fetched"
  /\ \E persisted \in BOOLEAN :
       warnings' = warnings
                     \o DetailWarnings(operation)
                     \o (IF persisted THEN <<>> ELSE <<PyStr("MissingEnvVarError")>>)
  /\ effects' = effects \o <<"log.CreatedResource", "ClusterConfig.Persist">>
  /\ result' = PyList(<<cluster>>)
  /\ pc' = "done"
  /\ UNCHANGED reported
  /\ UNCHANGED <<cmd, track, argv, ruleName, request, err, failSite, calls,
                 opState, elapsed, errRef, cancelAt, clusterName, format,
                 errPayload, callRefs, remote, operation, cluster>>
  /\ UNCHANGED <<FIREWALL_POLICY_ARG, threads, call>>

\* SimulateAlpha.Run up to the request: the files are read and checked.
SimulateBuild ==
  /\ cmd = "simulate"
  /\ pc = "parsed"
  /\ LET e == SimulateValidate(argv)
     IN  /\ pc' = IF e = "none" THEN "built" ELSE "failed"
         /\ err' = e
         /\ failSite' = IF e = "none" THEN "none" ELSE "build"
         /\ request' = IF e = "none" THEN SimulateRequest(argv) ELSE request
  /\ UNCHANGED reported
  /\ UNCHANGED <<cmd, track, argv, ruleName, calls, opState, elapsed, errRef,
                 cancelAt, clusterName, format, errPayload, callRefs, remote,
                 operation, cluster, warnings, result>>
  /\ UNCHANGED <<FIREWALL_POLICY_ARG, threads, effects, call>>

\* op_simulator_service.OrgPolicyViolationsPreviews(request=request)
SimulateSubmit ==
  /\ cmd = "simulate"
  /\ pc = "built"
  /\ \E ok \in BOOLEAN, p \in ProviderErrors :
       /\ Leave("submit", ok, "HttpError", p, <<"OrgPolicyViolationsPreviews">>,
                SimulateParent)
       /\ opState' = IF ok THEN "SUBMITTED" ELSE opState
       /\ remote' = ProviderAfter(IF ok THEN "RUNNING" ELSE remote, Made)
  /\ elapsed' = 0
  /\ UNCHANGED <<cmd, track, argv, ruleName, request, errRef, cancelAt,
                 clusterName, format, operation, cluster, warnings, result>>
  /\ UNCHANGED <<FIREWALL_POLICY_ARG, threads, effects, call>>

\* list_pager.YieldFromList(pov_service, ...)
SimulateList ==
  /\ cmd = "simulate"
  /\ pc = "list"
  /\ \E ok \in BOOLEAN, p \in ProviderErrors :
       /\ Leave("list", ok, "HttpError", p, <<"ListViolationsPreviews">>,
                SimulateParent)
       /\ result' = IF ok THEN PyList(<<PyStr("violations of " \o SimulateParent)>>)
                    ELSE result
  /\ remote' = ProviderAfter(remote, Made)
  /\ UNCHANGED <<cmd, track, argv, ruleName, request, opState, elapsed, errRef,
                 cancelAt, clusterName, format, operation, cluster, warnings>>
  /\ UNCHANGED <<FIREWALL_POLICY_ARG, threads, effects, call>>

\* The operation the provider reports done: it names what the mutating call
\* was made on and may carry a detail.
TerminalOperation(detail) ==
  PyMsg([name |-> OperationRef(cmd), target |-> callRefs[1], detail |-> detail])

\* One turn of the wait loop: the deadline is looked at, then the operation
\* is polled and, while it is not done, the poller sleeps one interval. A
\* wait that is called on an operation whose wait already ended starts anew.
Poll ==
  /\ pc = "waiting"
  /\ cancelAt < 0
  /\ LET fresh == opState \in TerminalStates
         cur == IF fresh THEN "SUBMITTED" ELSE opState
         waited == IF fresh THEN 0 ELSE elapsed
     IN  IF waited >= WaitTimeout(cmd, argv)
           THEN /\ opState' = "TIMED_OUT"
                /\ Leave("wait", FALSE, "OperationTimeoutError", NoPayload, <<>>,
                         OperationRef(cmd))
                /\ errRef' = OperationRef(cmd)
                /\ elapsed' = waited
                /\ remote' = ProviderAfter(remote, Made)
                /\ UNCHANGED operation
           ELSE \E r \in Replies(cur) :
                  CASE r = "DONE_OK" ->
                         /\ opState' = "DONE_OK"
                         /\ Leave("wait", TRUE, "none", NoPayload, <<"GetOperation">>,
                                  OperationRef(cmd))
                         /\ \E d \in Details : operation' = TerminalOperation(d)
                         /\ UNCHANGED errRef
                         /\ elapsed' = waited
                         /\ remote' = ProviderAfter("DONE", Made)
                    [] r = "DONE_ERROR" ->
                         /\ opState' = "DONE_ERROR"
                         /\ \E p \in ProviderErrors :
                              Leave("wait", FALSE, "OperationFailedError", p,
                                    <<"GetOperation">>, OperationRef(cmd))
                         /\ errRef' = OperationRef(cmd)
                         /\ elapsed' = waited
                         /\ remote' = ProviderAfter("DONE", Made)
                         /\ UNCHANGED operation
                    [] OTHER ->
                         /\ opState' = IF r = "PENDING" THEN "SUBMITTED" ELSE "RUNNING"
                         /\ elapsed' = waited + PollIntervalS
                         /\ calls' = Append(calls, "GetOperation")
                         /\ callRefs' = Append(callRefs, OperationRef(cmd))
                         /\ UNCHANGED <<pc, err, failSite, errRef, errPayload,
                                        reported, remote, operation>>
  /\ UNCHANGED <<cmd, track, argv, ruleName, request, cancelAt, clusterName,
                 format, cluster, warnings, result>>
  /\ UNCHANGED <<FIREWALL_POLICY_ARG, threads, effects, call>>

\* The caller interrupts the invocation while it waits.
Cancel ==
  /\ pc = "waiting"
  /\ cancelAt < 0
  /\ opState \in NonTerminalStates
  /\ cancelAt' = Len(calls)
  /\ UNCHANGED reported
  /\ UNCHANGED <<cmd, track, argv, ruleName, pc, request, err, failSite, calls,
                 opState, elapsed, errRef, clusterName, format, errPayload,
                 callRefs, remote, operation, cluster, warnings, result>>
  /\ UNCHANGED <<FIREWALL_POLICY_ARG, threads, effects, call>>

\* The interrupted wait returns: the sleep is cut short, nothing is polled.
CancelReturn ==
  /\ pc = "waiting"
  /\ cancelAt >= 0
  /\ opState \in NonTerminalStates
  /\ opState' = "CANCELLED"
  /\ Leave("wait", FALSE, "CancelledError", NoPayload, <<>>, OperationRef(cmd))
  /\ errRef' = OperationRef(cmd)
  /\ remote' = ProviderAfter(remote, Made)
  /\ UNCHANGED <<cmd, track, argv, ruleName, request, elapsed, cancelAt,
                 clusterName, format, operation, cluster, warnings, result>>
  /\ UNCHANGED <<FIREWALL_POLICY_ARG, threads, effects, call>>

\* The provider finishes an operation nobody waits for any more.
ProviderFinish ==
  /\ pc \in {"done", "failed"}
  /\ remote = "RUNNING"
  /\ remote' = "DONE"
  /\ UNCHANGED reported
  /\ UNCHANGED <<cmd, track, argv, ruleName, pc, request, err, failSite, calls,
                 opState, elapsed, errRef, cancelAt, clusterName, format,
                 errPayload, callRefs, operation, cluster, warnings, result>>
  /\ UNCHANGED <<FIREWALL_POLICY_ARG, threads, effects, call>>

Next ==
  \/ ParseArgs
  \/ UpdateRun
  \/ CreateBuild
  \/ CreateSubmit
  \/ GetCluster
  \/ CreateFinish
  \/ SimulateBuild
  \/ SimulateSubmit
  \/ SimulateList
  \/ Poll
  \/ Cancel
  \/ CancelReturn
  \/ ProviderFinish

Spec == Init /\ [][Next]_vars

\* The handler's steps are taken as long as one can be: no call blocks for
\* ever and the sleep between two polls ends.
FairSpec == Spec /\ WF_vars(Next)

-----------------------------------------------------------------------------
(* Two invocations in one process. Each runs Args and then Run of its      *)
(* command class, on its own parsed arguments; what they share is the      *)
(* class attribute Update.FIREWALL_POLICY_ARG, which every Update.Args     *)
(* assigns and every Update.Run reads, and the module-level table           *)
(* base_flag_defaults of create, which no handler assigns.                 *)

ThreadIds == {1, 2}

\* The options the side-by-side invocations are given.
ThreadFlags(c) ==
  IF c = "update" THEN {"new_priority"} ELSE {"async_"}

ThreadArgvs(c) == {a \in Argvs(c) : DOMAIN a \subseteq ThreadFlags(c)}

ThreadInputs ==
  {[cmd |-> c, track |-> t, argv |-> a, name |-> n,
    pc |-> "start", ref |-> "none", request |-> PyNone, used |-> 0] :
      c \in {"update", "create"}, t \in Tracks,
      a \in ThreadArgvs("update") \cup ThreadArgvs("create"),
      n \in RuleNames \cup {"c1"}}

\* The inputs of an invocation the parser lets through.
ThreadInput(th) ==
  /\ th.argv \in ThreadArgvs(th.cmd)
  /\ th.name \in (IF th.cmd = "update" THEN RuleNames ELSE {"c1"})

\* The request Run builds for th when the class attribute holds arg.
ThreadRequest(th, arg) ==
  IF th.cmd = "update"
    THEN LET ref == ResolveAsResource(arg, Namespace(th.name, th.argv))
         IN  IF ref \in RuleNames THEN UpdateRequest(th.track, th.argv, ref)
                                  ELSE PyNone
    ELSE PyMsg(ParseCreateOptions(th.track, th.argv))

\* The request the invocation builds when no other runs beside it.
Alone(th) == ThreadRequest(th, UpdateFirewallPolicyArg(th.track))

ThreadsInit ==
  /\ threads \in [ThreadIds -> {th \in ThreadInputs : ThreadInput(th)}]
  /\ FIREWALL_POLICY_ARG = PyNone
  /\ cmd = "update" /\ track = "GA" /\ argv = << >> /\ ruleName = "none"
  /\ clusterName = "none" /\ format = PyNone /\ pc = "threads"
  /\ request = PyNone /\ err = "none" /\ failSite = "none"
  /\ errPayload = NoPayload /\ reported = NoPayload
  /\ calls = <<>> /\ callRefs = <<>> /\ opState = "NONE" /\ elapsed = 0
  /\ errRef = "none" /\ cancelAt = -1 /\ remote = "NONE"
  /\ operation = PyNone /\ cluster = PyNone /\ warnings = <<>>
  /\ result = PyNone
  /\ effects = <<>>
  /\ call = NoCall

\* Args of thread i's command class: Update.Args assigns the class attribute.
ThreadArgs(i) ==
  /\ threads[i].pc = "start"
  /\ threads' = [threads EXCEPT ![i].pc = "args"]
  /\ FIREWALL_POLICY_ARG' =
       IF threads[i].cmd = "update"
         THEN UpdateFirewallPolicyArg(threads[i].track) @@ [id |-> i]
         ELSE FIREWALL_POLICY_ARG
  /\ UNCHANGED invocation
  /\ UNCHANGED call

\* Run of thread i: Update.Run resolves the rule through the class attribute
\* as it is now; Create.Run parses its options.
ThreadRun(i) ==
  /\ threads[i].pc = "args"
  /\ threads' = [threads EXCEPT
       ![i].pc = "ran",
       ![i].used = IF threads[i].cmd = "update" THEN FIREWALL_POLICY_ARG.id ELSE 0,
       ![i].ref = IF threads[i].cmd = "update"
                    THEN ResolveAsResource(FIREWALL_POLICY_ARG,
                                           Namespace(threads[i].name, threads[i].argv))
                    ELSE threads[i].name,
       ![i].request = ThreadRequest(threads[i], FIREWALL_POLICY_ARG)]
  /\ UNCHANGED FIREWALL_POLICY_ARG
  /\ UNCHANGED invocation
  /\ UNCHANGED call

ThreadsNext == \E i \in ThreadIds : ThreadArgs(i) \/ ThreadRun(i)

ThreadsSpec == ThreadsInit /\ [][ThreadsNext]_vars

-----------------------------------------------------------------------------
(* The module-level functions of clusters create, followed on their own:   *)
(* `call` holds the arguments of the call and what the function has done.  *)

\* No invocation and no thread is under way.
Idle ==
  /\ cmd = "create" /\ track = "GA" /\ argv = << >> /\ ruleName = "none"
  /\ clusterName = "none" /\ format = PyNone /\ pc = "function"
  /\ request = PyNone /\ err = "none" /\ failSite = "none"
  /\ errPayload = NoPayload /\ reported = NoPayload
  /\ calls = <<>> /\ callRefs = <<>> /\ opState = "NONE" /\ elapsed = 0
  /\ errRef = "none" /\ cancelAt = -1 /\ remote = "NONE"
  /\ operation = PyNone /\ cluster = PyNone /\ warnings = <<>>
  /\ result = PyNone /\ effects = <<>>
  /\ FIREWALL_POLICY_ARG = PyNone /\ threads = <<>>

\* flags_to_add[channel], for the flag groups the model follows, in the
\* order of the table.
flags_to_add(channel) ==
  CASE channel = "GA" ->
         <<"clusterdns", "nodelocations", "num_nodes", "privatecluster">>
    [] channel = "BETA" ->
         <<"clusterdns", "num_nodes", "podsecuritypolicy", "privatecluster">>
    [] OTHER ->
         <<"clusterdns", "gatewayapi", "num_nodes", "podsecuritypolicy",
           "privatecluster">>

\* Every flag group of the model, of whatever channel.
GroupKeys ==
  {"clusterdns", "nodelocations", "num_nodes", "podsecuritypolicy",
   "gatewayapi", "privatecluster"}

\* The keys a flag_defaults mapping of the model may hold: two flag groups
\* whose registration functions take a default, and a key that names no
\* flag group.
DefaultKeys == {"num_nodes", "privatecluster", "enable_ip_alias"}

\* The flag_defaults mappings: base_flag_defaults is [num_nodes |-> 3].
FlagDefaults ==
  {[k \in ks |-> IF k = "num_nodes" THEN PyInt(3) ELSE PyBool(TRUE)] :
     ks \in SUBSET DefaultKeys}

base_flag_defaults == [k \in {"num_nodes"} |-> PyInt(3)]

\* The allowlists: None, or a list of keys.
Allowlists ==
  {PyNone} \cup {[py |-> "set", keys |-> ks] :
                   ks \in SUBSET {"clusterdns", "num_nodes", "gatewayapi",
                                   "nodelocations"}}

\* A mutation of Allowed: an empty allowlist is taken for none.
Allowed_EmptyIsNone(allowlist, flagname) ==
  allowlist = PyNone \/ allowlist.keys = {} \/ flagname \in allowlist.keys

\* allowlist is None or (flagname in allowlist)
Allowed(allowlist, flagname) ==
  allowlist = PyNone \/ flagname \in allowlist.keys

\* The call AddFlags makes for flagname: with default= when flag_defaults
\* holds the key, with the parser alone otherwise.
Registration(flagname, flag_defaults) ==
  IF flagname \in DOMAIN flag_defaults
    THEN [key |-> flagname, kwargs |-> [default |-> flag_defaults[flagname]]]
    ELSE [key |-> flagname, kwargs |-> << >>]

AddFlagsInit ==
  /\ Idle
  /\ \E channel \in Tracks, flag_defaults \in FlagDefaults,
        allowlist \in Allowlists :
       call = [fn |-> "AddFlags", channel |-> channel,
               flag_defaults |-> flag_defaults, allowlist |-> allowlist,
               todo |-> flags_to_add(channel), registered |-> <<>>]

\* One turn of the loop of AddFlags.
AddFlagsStep ==
  /\ call.fn = "AddFlags"
  /\ call.todo # <<>>
  /\ LET flagname == Head(call.todo)
     IN  call' = [call EXCEPT
           !.todo = Tail(call.todo),
           !.registered =
             IF Allowed(call.allowlist, flagname)
               THEN Append(call.registered,
                           Registration(flagname, call.flag_defaults))
               ELSE call.registered]
  /\ UNCHANGED invocation
  /\ UNCHANGED <<FIREWALL_POLICY_ARG, threads>>

AddFlagsSpec == AddFlagsInit /\ [][AddFlagsStep]_vars

\* The argument objects MaybeLogCloudNatHelpText is called on: the
\* attributes they define, and the value of enable_private_nodes.
CloudNatArgs ==
  {[defined |-> d, enable_private_nodes |-> v] :
     d \in SUBSET {"enable_private_nodes", "network", "subnetwork"},
     v \in {PyNone, PyBool(TRUE), PyBool(FALSE)}}

\* getattr(args, 'enable_private_nodes', False)
GetEnablePrivateNodes(args) ==
  IF "enable_private_nodes" \in args.defined
    THEN args.enable_private_nodes ELSE PyBool(FALSE)

\* cloudNatTemplate.substitute(REGION=location, PROJECT_ID=project_id)
CloudNatNote(location, project_id) ==
  PyStr("Note: This cluster has private nodes. " \o location \o " " \o project_id)

\* MaybeLogCloudNatHelpText, evaluated as Python does, left to right and no
\* further than needed: hasattr('subnetwork') is a call with one argument,
\* which raises TypeError when it is reached.
MaybeLogCloudNatHelpText(args, is_autopilot, location, project_id) ==
  CASE ~is_autopilot -> [raised |-> "none", printed |-> <<>>]
    [] PyFalsy(GetEnablePrivateNodes(args)) -> [raised |-> "none", printed |-> <<>>]
    [] "network" \in args.defined ->
         [raised |-> "none", printed |-> <<CloudNatNote(location, project_id)>>]
    [] OTHER -> [raised |-> "TypeError", printed |-> <<>>]

CloudNatInit ==
  /\ Idle
  /\ \E args \in CloudNatArgs, is_autopilot \in BOOLEAN,
        location \in {"us-central1", "us-central1-a"},
        project_id \in {"project-1", "project-2"} :
       /\ "enable_private_nodes" \notin args.defined
            => args.enable_private_nodes = PyNone
       /\ call = [fn |-> "MaybeLogCloudNatHelpText", args |-> args,
                  is_autopilot |-> is_autopilot, location |-> location,
                  project_id |-> project_id, pc |-> "called",
                  raised |-> "none", printed |-> <<>>]

\* The function runs to its end or to the exception.
CloudNatRun ==
  /\ call.fn = "MaybeLogCloudNatHelpText"
  /\ call.pc = "called"
  /\ LET out == MaybeLogCloudNatHelpText(call.args, call.is_autopilot,
                                         call.location, call.project_id)
     IN  call' = [call EXCEPT
           !.pc = IF out.raised = "none" THEN "returned" ELSE "raised",
           !.raised = out.raised,
           !.printed = out.printed]
  /\ UNCHANGED invocation
  /\ UNCHANGED <<FIREWALL_POLICY_ARG, threads>>

CloudNatSpec == CloudNatInit /\ [][CloudNatRun]_vars

-----------------------------------------------------------------------------
(* What the claims speak of.                                               *)

\* A message carries a field when the field was given a value other than None.
Carries(fields, f) == f \in DOMAIN fields /\ fields[f] # PyNone

\* The field of the rule each rules-update option feeds.
RuleFieldOf ==
  [enable_logging |-> "enableLogging", disabled |-> "disabled",
   target_resources |-> "targetResources",
   target_service_accounts |-> "targetServiceAccounts",
   action |-> "action", description |-> "description",
   direction |-> "direction",
   security_profile_group |-> "securityProfileGroup"]

\* The field of the matcher each match option feeds.
MatcherFieldOf ==
  [src_ip_ranges |-> "srcIpRanges", dest_ip_ranges |-> "destIpRanges",
   layer4_configs |-> "layer4Configs",
   src_fqdns |-> "srcFqdns", dest_fqdns |-> "destFqdns",
   src_region_codes |-> "srcRegionCodes", dest_region_codes |-> "destRegionCodes",
   src_threat_intelligence |-> "srcThreatIntelligences",
   dest_threat_intelligence |-> "destThreatIntelligences"]

\* The rule and the matcher of the update request that was sent.
SentRule == request.fields["firewall_policy_rule"].fields
SentMatcher == SentRule["match"].fields

UpdateSent == cmd = "update" /\ request # PyNone
CreateBuilt == cmd = "create" /\ request # PyNone

\* Whether the update request carries the field option o feeds.
UpdateCarries(o) ==
  IF o \in DOMAIN RuleFieldOf
    THEN Carries(SentRule, RuleFieldOf[o])
    ELSE SentRule["match"] # PyNone /\ Carries(SentMatcher, MatcherFieldOf[o])

Count(seq, names) == Cardinality({i \in 1..Len(seq) : seq[i] \in names})

MutatingCalls == {"UpdateRule", "CreateCluster", "OrgPolicyViolationsPreviews"}

Ended == pc \in {"done", "failed"}

Polls == Count(calls, {"GetOperation"})

PollerEnded == opState \in TerminalStates

-----------------------------------------------------------------------------
(* C1. In a rules update and in a cluster create, an option the caller did *)
(* not specify is absent from the request: no field it feeds is given      *)
(* False, zero or an empty list.                                           *)
C1_UnsetOptionsAbsent ==
  /\ UpdateSent =>
       \A o \in (DOMAIN RuleFieldOf \cup DOMAIN MatcherFieldOf) :
         ~IsSpecified(argv, o) => ~UpdateCarries(o)
  /\ CreateBuilt =>
       \A o \in CreateAllFlags \ {"timeout", "async_"} :
         ~IsSpecified(argv, o) => ~Carries(request.fields, o)

(* C2. On every track of cluster create, a command line that sets both     *)
(* --additional-zones and --node-locations, or both --subnetwork and       *)
(* --create-subnetwork, ends with a ConflictingOptionsError.               *)
C2_ExclusivePairsConflict ==
  (/\ cmd = "create"
   /\ \/ {"additional_zones", "node_locations"} \subseteq DOMAIN argv
      \/ {"subnetwork", "create_subnetwork"} \subseteq DOMAIN argv)
    => \/ pc \in {"start", "parsed"}
       \/ pc = "failed" /\ err = "ConflictingOptionsError"
       \* another check of the handler failed before the options were looked at
       \/ pc = "failed" /\ failSite = "build"

C4_Unsupported(t) ==
  (IF t # "ALPHA" THEN {"src_fqdns", "dest_fqdns", "security_profile_group"} ELSE {})
    \cup (IF t = "GA"
            THEN {"src_threat_intelligence", "dest_threat_intelligence",
                  "src_region_codes", "dest_region_codes"}
            ELSE {})

(* C4. In a rules update, setting an option the track does not support     *)
(* ends with an UnsupportedOptionError before anything is sent; with none  *)
(* of them set the command line is accepted and the request has no field   *)
(* of any of them.                                                         *)
C4_UnsupportedOptionRejected ==
  (cmd = "update" /\ pc # "start") =>
    IF DOMAIN argv \cap C4_Unsupported(track) # {}
      THEN pc = "failed" /\ err = "UnsupportedOptionError" /\ calls = <<>>
                         /\ request = PyNone
      ELSE /\ failSite # "parse"
           /\ err \in {"none", "HttpError"}
           /\ UpdateSent =>
                \A o \in C4_Unsupported(track) :
                  /\ o \in DOMAIN RuleFieldOf => RuleFieldOf[o] \notin DOMAIN SentRule
                  /\ (o \in DOMAIN MatcherFieldOf /\ SentRule["match"] # PyNone)
                       => MatcherFieldOf[o] \notin DOMAIN SentMatcher

\* A GA update that set --src-fqdns was rejected.
C4_Witness ==
  /\ cmd = "update" /\ track = "GA" /\ pc = "failed"
  /\ IsSpecified(argv, "src_fqdns")

\* The errors of local validation: the parser's and the handlers' own checks.
ValidationErrors ==
  {"UnsupportedOptionError", "ConflictingOptionsError",
   "ConflictingArgumentsException", "InvalidArgumentException",
   "MissingKubectlError", "util.Error", "OperationCancelledError"}

(* C5. An invocation issues its mutating call at most once, and exactly    *)
(* once when local validation passed; a rejected call is surfaced as an    *)
(* error and is not issued again.                                          *)
C5_MutatingCallOnce ==
  /\ Count(calls, MutatingCalls) <= 1
  /\ (Ended /\ err \notin ValidationErrors) => Count(calls, MutatingCalls) = 1
  /\ failSite = "submit" => (pc = "failed" /\ err # "none")

\* The states of the poller in which the wait ended with an error.
WaitErrorStates == {"DONE_ERROR", "TIMED_OUT", "CANCELLED"}

(* C6. Every error ends the invocation: once the call is rejected, the     *)
(* operation failed, the wait timed out or the fetch failed, the handler   *)
(* has left with that error, and from then on it issues no remote call and *)
(* the error stays the one surfaced.                                       *)
C6_ErrorsAreTerminal ==
  /\ [](opState \in WaitErrorStates => (pc = "failed" /\ err # "none"))
  /\ [](err # "none" <=> pc = "failed")
  /\ [][pc = "failed" => (calls' = calls /\ err' = err /\ pc' = "failed")]_vars
  /\ [](failSite # "none" => pc = "failed")
  /\ [](failSite = "submit" => Polls = 0)
  /\ [](failSite = "wait" =>
          Count(calls, {"GetCluster", "ListViolationsPreviews"}) = 0)

\* A cluster create whose operation failed ended with the error, after the
\* create call and one poll and nothing else.
C6_Witness ==
  /\ cmd = "create" /\ pc = "failed" /\ failSite = "wait"
  /\ opState = "DONE_ERROR"
  /\ calls = <<"CreateCluster", "GetOperation">>

(* C7. The error of a fetch that fails after the operation succeeded is    *)
(* distinguishable from the error of a rejected initial call and from the  *)
(* error of a failed operation.                                            *)
C7_FetchErrorDistinct ==
  (cmd = "create" /\ pc = "failed" /\ failSite = "fetch" /\ opState = "DONE_OK")
    => /\ err # CreateSurfaced("submit", "HttpError")
       /\ err # "OperationFailedError"

PollerTransitions ==
  {<<"NONE", "SUBMITTED">>,
   <<"SUBMITTED", "RUNNING">>, <<"SUBMITTED", "DONE_OK">>,
   <<"SUBMITTED", "DONE_ERROR">>, <<"SUBMITTED", "TIMED_OUT">>,
   <<"SUBMITTED", "CANCELLED">>,
   <<"RUNNING", "DONE_OK">>, <<"RUNNING", "DONE_ERROR">>,
   <<"RUNNING", "TIMED_OUT">>, <<"RUNNING", "CANCELLED">>}

PollerMayGo(from, to) == <<from, to>> \in PollerTransitions


(* C8. The poller goes SUBMITTED, RUNNING any number of times, then        *)
(* DONE_OK or DONE_ERROR, with TIMED_OUT and CANCELLED reachable from the  *)
(* non-terminal states only; from a terminal state there is no transition  *)
(* and the operation is not polled again.                                  *)
C8_PollerStateMachine ==
  /\ [][opState' # opState => PollerMayGo(opState, opState')]_vars
  /\ [][PollerEnded => (opState' = opState /\ Polls' = Polls)]_vars
  /\ [](PollerEnded => pc # "waiting")

\* The operation ran for a while and then ended in success.
C8_Witness ==
  /\ opState = "DONE_OK" /\ elapsed > 0 /\ Polls >= 2
  /\ pc \in {"fetch", "list"}

\* --timeout as the claim C9 states it.
C9_Configured ==
  IF IsSpecified(argv, "timeout") THEN argv["timeout"].n ELSE 3600

(* C9. In a cluster create whose operation is never reported done, the     *)
(* wait polls once per interval until --timeout (3600 s unless given) has  *)
(* elapsed and then ends with an OperationTimeoutError that carries the    *)
(* operation's reference; it does not time out before the deadline, and    *)
(* the invocation always ends.                                             *)
C9_TimeoutAtDeadline ==
  /\ []((cmd = "create" /\ opState = "TIMED_OUT") =>
          /\ elapsed >= C9_Configured
          /\ elapsed < C9_Configured + PollIntervalS
          /\ Polls * PollIntervalS = elapsed
          /\ pc = "failed" /\ err = "OperationTimeoutError"
          /\ errRef = OperationRef("create"))
  /\ []((cmd = "create" /\ pc = "waiting" /\ cancelAt < 0
           /\ elapsed < C9_Configured) => ENABLED Poll)
  /\ <>Ended

\* A create without --timeout timed out after the default hour.
C9_Witness ==
  /\ cmd = "create" /\ opState = "TIMED_OUT"
  /\ ~IsSpecified(argv, "timeout")
  /\ elapsed >= 3600 /\ Polls >= 3

(* C10. Once the caller has interrupted the wait, no call is issued and    *)
(* no further interval is slept, and the wait returns a CancelledError.    *)
C10_CancelStopsPolling ==
  /\ [][cancelAt >= 0 => (calls' = calls /\ elapsed' = elapsed)]_vars
  /\ []((cancelAt >= 0 /\ pc # "waiting") =>
          (pc = "failed" /\ err = "CancelledError" /\ opState = "CANCELLED"
             /\ Len(calls) = cancelAt))
  /\ (cancelAt >= 0) ~> (pc = "failed" /\ err = "CancelledError")

\* A wait that had polled at least once was interrupted and returned.
C10_Witness ==
  /\ opState = "CANCELLED" /\ elapsed > 0 /\ Polls >= 1
  /\ err = "CancelledError"

-----------------------------------------------------------------------------
\* The calls that fetch the result of the mutation.
FetchCalls == {"GetCluster", "ListViolationsPreviews"}

(* C11. No request that cancels or undoes the remote operation is ever     *)
(* issued: when the invocation leaves with a timeout, a cancellation by   *)
(* the caller or an error, the operation at the provider is as it was,    *)
(* and an operation that runs still becomes DONE.                          *)
C11_RemoteOperationLeftAlone ==
  /\ [](\A i \in 1..Len(calls) : calls[i] \notin CancellingCalls)
  /\ [](remote # "CANCELLED")
  /\ [][(pc # "failed" /\ pc' = "failed")
          => (remote' = remote \/ opState' = "DONE_ERROR")]_vars
  /\ (remote = "RUNNING") ~> (remote = "DONE")

\* The wait timed out and the operation ended at the provider afterwards.
C11_Witness ==
  /\ opState = "TIMED_OUT" /\ pc = "failed"
  /\ remote = "DONE"

(* C12. When the operation is DONE with an error, the invocation ends with *)
(* an OperationFailedError that carries the code and the message the      *)
(* provider reported, unchanged, and no resource is fetched or returned.   *)
C12_OperationErrorSurfaced ==
  opState = "DONE_ERROR" =>
    /\ pc = "failed" /\ err = "OperationFailedError"
    /\ reported \in ProviderErrors
    /\ errPayload = reported
    /\ Count(calls, FetchCalls) = 0
    /\ cluster = PyNone /\ result = PyNone

\* A cluster create whose operation ended with 409 "conflict".
C12_Witness ==
  /\ cmd = "create" /\ opState = "DONE_ERROR"
  /\ errPayload = [code |-> 409, message |-> "conflict"]

DetailWarned ==
  \E i \in 1..Len(warnings) : warnings[i] = operation.fields.detail

(* C14. In a cluster create that succeeded, a detail of the terminal       *)
(* operation that is not empty is logged as a warning and raises nothing: *)
(* the invocation returns the fetched cluster; an empty detail logs no    *)
(* warning.                                                                *)
C14_DetailIsWarning ==
  /\ [][(cmd = "create" /\ pc = "fetched") => pc' = "done"]_vars
  /\ []((cmd = "create" /\ opState = "DONE_OK" /\ pc = "failed")
          => failSite = "fetch")
  /\ []((cmd = "create" /\ opState = "DONE_OK" /\ pc = "done") =>
          /\ err = "none"
          /\ cluster # PyNone /\ result = PyList(<<cluster>>)
          /\ DetailWarned <=> operation.fields.detail \notin {PyNone, PyStr("")})

\* A create returned its cluster after a detail was logged.
C14_Witness ==
  /\ cmd = "create" /\ pc = "done"
  /\ operation # PyNone /\ operation.fields.detail = PyStr("nodes are not ready")
  /\ DetailWarned

(* C15. Round trip: when the provider reports the operation DONE with      *)
(* success at the first poll, the cluster that was created, the cluster   *)
(* the operation waited on names, the cluster that was fetched and the    *)
(* cluster returned are the one the name argument names at the resolved   *)
(* location, for every command line and track.                             *)
C15_RoundTripIdentity ==
  (cmd = "create" /\ pc = "done" /\ opState = "DONE_OK" /\ Polls = 1) =>
    LET named == [projectId |-> "project-1", zone |-> "us-central1-a",
                  clusterId |-> clusterName]
    IN  /\ calls = <<"CreateCluster", "GetOperation", "GetCluster">>
        /\ callRefs[1] = named
        /\ callRefs[2] = operation.fields.name
        /\ operation.fields.target = named
        /\ callRefs[3] = named
        /\ result = PyList(<<PyMsg([name |-> clusterName, zone |-> "us-central1-a",
                                    projectId |-> "project-1"])>>)

\* The cluster c2 was created, waited for in one poll, fetched and returned.
C15_Witness ==
  /\ cmd = "create" /\ pc = "done" /\ Polls = 1 /\ clusterName = "c2"
  /\ result # PyNone

(* C17. Building the request is a pure transformation: the step that      *)
(* builds it leaves the argument object as the caller passed it and makes *)
(* no remote call; it gives the request and nothing else.                  *)
C17_BuildIsPure ==
  [][(cmd \in {"create", "simulate"} /\ pc = "parsed")
       => (/\ format' = format
           /\ argv' = argv
           /\ calls' = calls /\ remote' = remote
           /\ result' = result)]_vars

\* An option of the simulate command that names at least one file.
SimulateGiven(o) == IsSpecified(argv, o) /\ argv[o].items # <<>>

\* Every file given to the simulate command holds a message with a name.
SimulateFilesNamed ==
  \A o \in DOMAIN argv :
    \A i \in 1..Len(argv[o].items) : argv[o].items[i] = "named"

(* C19. The simulate command starts a simulation when --policies, or      *)
(* --custom-constraints, or both are given (with files that hold named    *)
(* messages); it ends with a ConflictingArgumentsException, before any     *)
(* remote call, exactly when neither is given.                             *)
C19_SimulateAcceptsEither ==
  (cmd = "simulate" /\ pc \notin {"start", "parsed"}) =>
    LET neither == ~SimulateGiven("policies") /\ ~SimulateGiven("custom_constraints")
    IN  /\ neither => (/\ pc = "failed"
                        /\ err = "ConflictingArgumentsException"
                        /\ calls = <<>>)
        /\ err = "ConflictingArgumentsException" => neither
        /\ (~neither /\ SimulateFilesNamed) =>
             (/\ failSite # "build"
              /\ Len(calls) >= 1 /\ calls[1] = "OrgPolicyViolationsPreviews")

\* The exceptions of the checks cluster create makes before the create call.
CreateLocalErrors ==
  {"UnsupportedOptionError", "ConflictingOptionsError", "MissingKubectlError",
   "util.Error", "OperationCancelledError"}

(* C20. Every failure cluster create detects locally (the parser's, the    *)
(* kubectl check, an option conflict, the GA CloudDNS scope, a declined    *)
(* Kubernetes alpha prompt) comes before CreateCluster: an invocation      *)
(* that ended with one of them has made no request, and the first request *)
(* is made only after all of them passed.                                  *)
C20_LocalErrorsBeforeSubmit ==
  /\ []((cmd = "create" /\ err \in CreateLocalErrors) =>
          (/\ pc = "failed" /\ failSite \in {"parse", "build"}
           /\ calls = <<>> /\ request = PyNone /\ remote = "NONE"))
  /\ []((cmd = "create" /\ failSite \in {"parse", "build"}) => calls = <<>>)
  /\ [][(cmd = "create" /\ calls = <<>> /\ calls' # <<>>)
          => (pc = "built" /\ err = "none" /\ calls' = <<"CreateCluster">>)]_vars

\* A GA create with CloudDNS and no scope ended before any request.
C20_Witness ==
  /\ cmd = "create" /\ track = "GA" /\ pc = "failed" /\ err = "util.Error"
  /\ IsSpecified(argv, "cluster_dns") /\ calls = <<>>

(* C18. Two invocations that run side by side, on the same or on           *)
(* different release tracks, each build the request they build when run    *)
(* alone, for the rule or the cluster their own arguments name, in every   *)
(* interleaving of their steps.                                            *)
C18_InterleavedAsAlone ==
  \A i \in DOMAIN threads :
    threads[i].pc = "ran" =>
      /\ threads[i].request = Alone(threads[i])
      /\ threads[i].request # PyNone
      /\ threads[i].ref = threads[i].name

\* A GA update ran on the argument object an ALPHA update had stored.
C18_Witness ==
  /\ DOMAIN threads = ThreadIds
  /\ threads[1].pc = "ran" /\ threads[1].cmd = "update" /\ threads[1].track = "GA"
  /\ threads[2].cmd = "update" /\ threads[2].track = "ALPHA"
  /\ threads[1].used = 2
  /\ threads[1].name # threads[2].name

\* The create invocation was not given --async.
CreateWaits == cmd = "create" /\ ~IsAsync(argv)

\* The handler has an error and goes on all the same.
GoesOnAfterError ==
  err # "none" /\ (calls' # calls \/ effects' # effects \/ pc' # pc)

(* C21. In a cluster create without --async the steps come in the order    *)
(* CreateCluster, WaitForOperation, GetCluster, kubeconfig Persist, each   *)
(* one only after the one before returned without error; the created-     *)
(* resource message is logged and the kubeconfig persisted only when the   *)
(* three remote steps succeeded.                                           *)
C21_CreateStepsInOrder ==
  /\ [](CreateWaits =>
          \A i \in 1..Len(calls) :
            /\ calls[i] = "CreateCluster" => i = 1
            /\ calls[i] = "GetOperation" =>
                 (i > 1 /\ calls[i-1] \in {"CreateCluster", "GetOperation"})
            /\ calls[i] = "GetCluster" =>
                 (/\ i = Len(calls) /\ i > 2
                  /\ calls[i-1] = "GetOperation"
                  /\ opState = "DONE_OK"))
  /\ [](CreateWaits /\ pc \in {"fetch", "fetched"} =>
          (opState = "DONE_OK" /\ operation # PyNone /\ err = "none"))
  /\ [](CreateWaits /\ effects # <<>> =>
          (/\ effects = <<"log.CreatedResource", "ClusterConfig.Persist">>
           /\ pc = "done" /\ err = "none"
           /\ calls[1] = "CreateCluster"
           /\ opState = "DONE_OK"
           /\ calls[Len(calls)] = "GetCluster"
           /\ cluster # PyNone))
  /\ [][CreateWaits => ~GoesOnAfterError]_vars

\* A create that waited, fetched, logged and persisted.
C21_Witness ==
  /\ CreateWaits /\ pc = "done"
  /\ effects = <<"log.CreatedResource", "ClusterConfig.Persist">>
  /\ Len(calls) >= 4

\* The create invocation was given --async.
CreateAsync == cmd = "create" /\ IsAsync(argv)

(* C22. With --async, cluster create returns right after a successful       *)
(* CreateCluster and one GetCluster: the operation is never waited on,     *)
(* nothing is persisted, no created-resource message is logged; the        *)
(* output format becomes the operations format only when --async is given  *)
(* and --format is not.                                                    *)
C22_AsyncReturnsEarly ==
  /\ CreateAsync =>
       /\ Count(calls, {"GetOperation"}) = 0
       /\ pc \notin {"waiting", "fetch", "fetched"}
       /\ opState \in {"NONE", "SUBMITTED"}
       /\ operation = PyNone
       /\ effects = <<>> /\ warnings = <<>>
       /\ calls \in {<<>>, <<"CreateCluster">>, <<"CreateCluster", "GetCluster">>}
       /\ pc = "done" => (/\ calls = <<"CreateCluster", "GetCluster">>
                          /\ result = cluster /\ cluster # PyNone)
       /\ result # PyNone => pc = "done"
  /\ (cmd = "create" /\ pc \notin {"start", "parsed"} /\ failSite # "parse") =>
       format = IF CreateAsync /\ ~IsSpecified(argv, "format")
                  THEN OPERATIONS_FORMAT
                  ELSE ArgValue(argv, "format")

\* An --async create with --format returned the cluster and kept the format.
C22_Witness ==
  /\ CreateAsync /\ pc = "done" /\ result # PyNone
  /\ IsSpecified(argv, "format") /\ format = argv["format"]
  /\ format # OPERATIONS_FORMAT

\* The spellings of CloudDNS among the values of the model.
CloudDnsSpellings == {"clouddns", "CloudDNS"}

\* The command line asks for CloudDNS, in some letter case, without a scope.
CloudDnsWithoutScope ==
  /\ IsSpecified(argv, "cluster_dns")
  /\ argv["cluster_dns"].s \in CloudDnsSpellings
  /\ ~IsSpecified(argv, "cluster_dns_scope")

\* Create.Run has gone through its local checks.
CreateChecked ==
  cmd = "create" /\ pc \notin {"start", "parsed"} /\ failSite # "parse"

(* C23. On GA a cluster create with cluster_dns 'clouddns', in any letter  *)
(* case, and no cluster_dns_scope ends with util.Error (unless the kubectl *)
(* check before it already ended the invocation); on BETA and ALPHA, and   *)
(* on GA with another cluster_dns or with a scope, no util.Error is        *)
(* raised.                                                                 *)
C23_GaCloudDnsNeedsScope ==
  CreateChecked =>
    /\ (track = "GA" /\ CloudDnsWithoutScope) =>
         (/\ pc = "failed" /\ failSite = "build"
          /\ err \in {"util.Error", "MissingKubectlError"}
          /\ calls = <<>>)
    /\ err = "util.Error" => (track = "GA" /\ CloudDnsWithoutScope)

\* GA, --cluster-dns=CloudDNS in capitals, no scope: util.Error.
C23_Witness ==
  /\ CreateChecked /\ track = "GA" /\ err = "util.Error"
  /\ IsSpecified(argv, "cluster_dns") /\ argv["cluster_dns"].s = "CloudDNS"

\* The options of rules update that describe what traffic a rule matches.
MatchOptions ==
  {"src_ip_ranges", "dest_ip_ranges", "layer4_configs",
   "src_threat_intelligence", "dest_threat_intelligence",
   "src_region_codes", "dest_region_codes", "src_fqdns", "dest_fqdns"}

\* The match options a track accepts.
LegalMatchOptions(t) ==
  CASE t = "GA" -> {"src_ip_ranges", "dest_ip_ranges", "layer4_configs"}
    [] t = "BETA" -> MatchOptions \ {"src_fqdns", "dest_fqdns"}
    [] OTHER -> MatchOptions

(* C24. The rule a firewall rule update sends carries a matcher exactly    *)
(* when at least one match option legal on the track is specified;         *)
(* target resources, target service accounts, logging, disabled,           *)
(* direction, priority and security profile group never make one.          *)
C24_MatcherWhenMatchOption ==
  UpdateSent =>
    /\ DOMAIN argv \cap MatchOptions \subseteq LegalMatchOptions(track)
    /\ Carries(SentRule, "match") <=> (DOMAIN argv \cap MatchOptions # {})
    /\ Carries(SentRule, "match") =>
         \A o \in DOMAIN argv \cap MatchOptions :
           SentMatcher[MatcherFieldOf[o]] # PyList(<<>>)

\* A BETA update with region codes alone sent a matcher.
C24_Witness ==
  /\ UpdateSent /\ track = "BETA"
  /\ DOMAIN argv = {"src_region_codes"}
  /\ Carries(SentRule, "match")

\* The priorities the names of the model stand for.
PriorityNumber == [n \in {"10", "20"} |-> IF n = "10" THEN 10 ELSE 20]

(* C25. A firewall rule update addresses the rule at the priority the      *)
(* positional name gives; the rule body carries the --new-priority value   *)
(* when one is specified and the addressed priority otherwise.             *)
C25_PriorityAddressedAndKept ==
  UpdateSent =>
    /\ request.fields["priority"] = PyInt(PriorityNumber[ruleName])
    /\ callRefs = <<ruleName>>
    /\ SentRule["priority"] =
         IF IsSpecified(argv, "new_priority")
           THEN PyInt(PriorityNumber[argv["new_priority"].s])
           ELSE request.fields["priority"]

\* Rule 10 was moved to priority 20: the call addresses 10, the body says 20.
C25_Witness ==
  /\ UpdateSent /\ ruleName = "10" /\ IsSpecified(argv, "new_priority")
  /\ request.fields["priority"] = PyInt(10)
  /\ SentRule["priority"] = PyInt(20)

\* SimulateAlpha.Run has gone through its validation.
SimulateChecked ==
  cmd = "simulate" /\ pc \notin {"start", "parsed"} /\ failSite # "parse"

\* Some file given to the simulate command holds a message without a name.
SimulateSomeUnnamed ==
  \E o \in DOMAIN argv :
    \E i \in 1..Len(argv[o].items) : argv[o].items[i] = "unnamed"

(* C26. The simulate command validates every policy file and every custom  *)
(* constraint file before any remote call: when one of them lacks a name   *)
(* the invocation ends with InvalidArgumentException and no preview, wait  *)
(* or list request was made.                                               *)
C26_NamesValidatedFirst ==
  (SimulateChecked /\ SimulateSomeUnnamed) =>
    /\ pc = "failed"
    /\ err = "InvalidArgumentException"
    /\ calls = <<>>

(* C27. The simulate command lists the violations previews only after the  *)
(* preview operation was submitted and the wait on it returned: no list    *)
(* request is made in an invocation whose wait did not end successfully.   *)
C27_ListAfterWait ==
  cmd = "simulate" =>
    /\ pc = "list" => (opState = "DONE_OK" /\ err = "none")
    /\ \A i \in 1..Len(calls) :
         calls[i] = "ListViolationsPreviews" =>
           /\ i = Len(calls) /\ i > 2
           /\ calls[1] = "OrgPolicyViolationsPreviews"
           /\ calls[i-1] = "GetOperation"
           /\ opState = "DONE_OK"
           /\ failSite \in {"none", "list"}
    /\ opState # "DONE_OK" => Count(calls, {"ListViolationsPreviews"}) = 0

\* A simulation whose results were listed after the wait.
C27_Witness ==
  /\ cmd = "simulate" /\ pc = "done"
  /\ calls[Len(calls)] = "ListViolationsPreviews"
  /\ Polls >= 2

\* The calls AddFlags has made of the registration function of group key.
RegistrationsOf(key) ==
  {i \in 1..Len(call.registered) : call.registered[i].key = key}

\* The group is in the table of the channel AddFlags was called for.
InChannelTable(key) ==
  \E i \in 1..Len(flags_to_add(call.channel)) :
    flags_to_add(call.channel)[i] = key

C29_CloudNatNoteNeverRaises ==
  (call.fn = "MaybeLogCloudNatHelpText" /\ call.pc # "called") =>
    /\ call.pc = "returned" /\ call.raised = "none"
    /\ (call.printed # <<>>) <=>
         (/\ call.is_autopilot
          /\ "enable_private_nodes" \in call.args.defined
          /\ call.args.enable_private_nodes = PyBool(TRUE)
          /\ call.args.defined \cap {"network", "subnetwork"} # {})
====
